---- MODULE Spec2Model ----
(***************************************************************************)
(* The normalization, translation, differencing and explanation functions  *)
(* of the EXP compare utility (src/app.py, src/application.py).            *)
(*                                                                         *)
(* A text is a sequence of characters; a character is a one-character      *)
(* string.  The regular expressions of the source are kept as data (a      *)
(* sequence of items) and run by a backtracking matcher that follows the   *)
(* priorities of Python's re module (leftmost match, greedy or lazy        *)
(* repetition).                                                            *)
(***************************************************************************)
EXTENDS Integers, Sequences, FiniteSets, TLC

VARIABLES
    tsql,            \* the first document handed to a function (raw_tsql, sql, a_text)
    snow,            \* the second document (raw_snow, b_text)
    schema_map,      \* the ordered name mapping: a sequence of <<source, target>>
    opts,            \* the normalization options
    ret,             \* the calls made so far, oldest first: arguments and value returned
    steps            \* the locals [s, notes] of t_sql_to_snowflake after each of its steps

vars == <<tsql, snow, schema_map, opts, ret, steps>>

-----------------------------------------------------------------------------
(* Characters *)

NL == "\n"
TAB == "\t"
CR == "\r"
FF == "\f"
BSL == "\\"
DQ == "\""
BEL == "<BEL>"      \* chr(7), written by the template escape \a
BS == "<BS>"        \* chr(8), written by the template escape \b
VT == "<VT>"        \* chr(11), written by the template escape \v
BQ == "<BQ>"        \* chr(96), the back quote

UpperSeq == <<"A","B","C","D","E","F","G","H","I","J","K","L","M",
              "N","O","P","Q","R","S","T","U","V","W","X","Y","Z">>
LowerSeq == <<"a","b","c","d","e","f","g","h","i","j","k","l","m",
              "n","o","p","q","r","s","t","u","v","w","x","y","z">>
DigitSeq == <<"0","1","2","3","4","5","6","7","8","9">>

Range(f) == {f[i] : i \in DOMAIN f}

UpperSet == Range(UpperSeq)
LowerSet == Range(LowerSeq)
Letters == UpperSet \cup LowerSet
Digits == Range(DigitSeq)
OctDigits == {"0","1","2","3","4","5","6","7"}
WordChars == Letters \cup Digits \cup {"_"}
Space == {" ", TAB, NL, CR, FF, VT}
Punct == {"-", "/", "*", "[", "]", BQ, "(", ")", ",", ";", ".", "<", ">", "=",
          "'", "&", "+", BSL, DQ}
Sigma == WordChars \cup Space \cup Punct \cup {BEL, BS}

ToLower(c) == IF \E i \in 1..26 : UpperSeq[i] = c
              THEN LowerSeq[CHOOSE i \in 1..26 : UpperSeq[i] = c] ELSE c
ToUpper(c) == IF \E i \in 1..26 : LowerSeq[i] = c
              THEN UpperSeq[CHOOSE i \in 1..26 : LowerSeq[i] = c] ELSE c

\* str.lower()
Lower(s) == [i \in 1..Len(s) |-> ToLower(s[i])]

RECURSIVE Concat(_)
Concat(ss) == IF ss = <<>> THEN <<>> ELSE Head(ss) \o Concat(Tail(ss))

\* s[i:j] of Python with 1-based i and exclusive j
Slice(s, i, j) == IF j <= i THEN <<>> ELSE SubSeq(s, i, j - 1)

-----------------------------------------------------------------------------
(* Regular expressions.  A pattern is a sequence of items:                 *)
(*   [t |-> "set", cs, q]  one character of cs, repeated as q says:        *)
(*                         "1", "+", "*" (greedy) or "*?" (lazy)           *)
(*   [t |-> "wb"]          \b                                              *)
(*   [t |-> "eol"]         $ under re.MULTILINE                            *)
(*   [t |-> "eos"]         $ without re.MULTILINE                          *)
(*   [t |-> "open", g], [t |-> "close", g]   the parentheses of group g    *)

One(cs) == [t |-> "set", cs |-> cs, q |-> "1"]
Plus(cs) == [t |-> "set", cs |-> cs, q |-> "+"]
Star(cs) == [t |-> "set", cs |-> cs, q |-> "*"]
LazyStar(cs) == [t |-> "set", cs |-> cs, q |-> "*?"]
WB == [t |-> "wb"]
EOL == [t |-> "eol"]
EOS == [t |-> "eos"]
Open(g) == [t |-> "open", g |-> g]
Close(g) == [t |-> "close", g |-> g]

\* a literal string, and the same under re.IGNORECASE
Lit(str) == [i \in 1..Len(str) |-> One({str[i]})]
LitCI(str) == [i \in 1..Len(str) |-> One({ToLower(str[i]), ToUpper(str[i])})]

Dot == Sigma \ {NL}          \* . without re.DOTALL
DotAll == Sigma              \* . under re.DOTALL
Not(cs) == Sigma \ cs        \* [^...]

NoMatch == [ok |-> FALSE]
NoGroups == [g \in 1..2 |-> <<0, 0>>]

IsWordAt(s, i) == i >= 1 /\ i <= Len(s) /\ s[i] \in WordChars
AtWordBoundary(s, i) == IsWordAt(s, i - 1) # IsWordAt(s, i)
AtLineEnd(s, i) == i = Len(s) + 1 \/ s[i] = NL
AtStringEnd(s, i) == i = Len(s) + 1 \/ (i = Len(s) /\ s[i] = NL)

RECURSIVE RunLength(_, _, _)
RunLength(s, i, cs) ==
    IF i <= Len(s) /\ s[i] \in cs THEN 1 + RunLength(s, i + 1, cs) ELSE 0

\* The match of items k.. of pattern p at position i of s: [ok, end, grp], where
\* end is the position after the match and grp[g] the span <<start, end>> of group g.
RECURSIVE MatchFrom(_, _, _, _, _)
RECURSIVE TryRepeat(_, _, _, _, _, _, _, _)
MatchFrom(p, k, s, i, grp) ==
    IF k > Len(p) THEN [ok |-> TRUE, end |-> i, grp |-> grp]
    ELSE LET it == p[k] IN
         CASE it.t = "wb" ->
                IF AtWordBoundary(s, i) THEN MatchFrom(p, k + 1, s, i, grp) ELSE NoMatch
           [] it.t = "eol" ->
                IF AtLineEnd(s, i) THEN MatchFrom(p, k + 1, s, i, grp) ELSE NoMatch
           [] it.t = "eos" ->
                IF AtStringEnd(s, i) THEN MatchFrom(p, k + 1, s, i, grp) ELSE NoMatch
           [] it.t = "open" ->
                MatchFrom(p, k + 1, s, i, [grp EXCEPT ![it.g] = <<i, i>>])
           [] it.t = "close" ->
                MatchFrom(p, k + 1, s, i, [grp EXCEPT ![it.g] = <<grp[it.g][1], i>>])
           [] it.t = "set" /\ it.q = "1" ->
                IF i <= Len(s) /\ s[i] \in it.cs
                THEN MatchFrom(p, k + 1, s, i + 1, grp) ELSE NoMatch
           [] it.t = "set" /\ it.q = "+" ->
                TryRepeat(p, k, s, i, grp, RunLength(s, i, it.cs), 1, -1)
           [] it.t = "set" /\ it.q = "*" ->
                TryRepeat(p, k, s, i, grp, RunLength(s, i, it.cs), 0, -1)
           [] it.t = "set" /\ it.q = "*?" ->
                TryRepeat(p, k, s, i, grp, 0, RunLength(s, i, it.cs), 1)

\* Item k taken n times, then the rest; on failure n moves by step towards last.
TryRepeat(p, k, s, i, grp, n, last, step) ==
    IF (step < 0 /\ n < last) \/ (step > 0 /\ n > last) THEN NoMatch
    ELSE LET m == MatchFrom(p, k + 1, s, i + n, grp) IN
         IF m.ok THEN m ELSE TryRepeat(p, k, s, i, grp, n + step, last, step)

MatchAt(p, s, i) == MatchFrom(p, 1, s, i, NoGroups)

\* re.search from position i on: the leftmost match, [ok, start, end, grp]
RECURSIVE SearchFrom(_, _, _)
SearchFrom(p, s, i) ==
    IF i > Len(s) + 1 THEN NoMatch
    ELSE LET m == MatchAt(p, s, i) IN
         IF m.ok THEN [ok |-> TRUE, start |-> i, end |-> m.end, grp |-> m.grp]
         ELSE SearchFrom(p, s, i + 1)

Search(p, s) == SearchFrom(p, s, 1)
Found(p, s) == Search(p, s).ok

Group(s, m, g) == Slice(s, m.grp[g][1], m.grp[g][2])

\* str.strip(), str.rstrip() with a set of characters
RECURSIVE LStripSet(_, _)
LStripSet(s, cs) == IF s # <<>> /\ Head(s) \in cs THEN LStripSet(Tail(s), cs) ELSE s
RECURSIVE RStripSet(_, _)
RStripSet(s, cs) ==
    IF s # <<>> /\ s[Len(s)] \in cs THEN RStripSet(SubSeq(s, 1, Len(s) - 1), cs) ELSE s
Strip(s) == LStripSet(RStripSet(s, Space), Space)

(* A replacement is a sequence of parts:                                   *)
(*   [t |-> "lit", s]       the text s                                     *)
(*   [t |-> "grp", g]       the text of group g                            *)
(*   [t |-> "strip", g]     the text of group g, stripped                  *)
(*   [t |-> "all"]          the whole match                                *)
RLit(str) == [t |-> "lit", s |-> str]
RGrp(g) == [t |-> "grp", g |-> g]
RStrip(g) == [t |-> "strip", g |-> g]
RAll == [t |-> "all"]

RECURSIVE Expand(_, _, _)
Expand(rp, s, m) ==
    IF rp = <<>> THEN <<>>
    ELSE LET r == Head(rp)
             x == CASE r.t = "lit" -> r.s
                    [] r.t = "grp" -> Group(s, m, r.g)
                    [] r.t = "strip" -> Strip(Group(s, m, r.g))
                    [] r.t = "all" -> Slice(s, m.start, m.end)
         IN x \o Expand(Tail(rp), s, m)

\* re.sub(p, rp, s): every non-overlapping match replaced, scanning from the left;
\* an empty match is replaced and the scan moves on by one character.
RECURSIVE SubFrom(_, _, _, _)
SubFrom(p, rp, s, i) ==
    IF i > Len(s) + 1 THEN <<>>
    ELSE LET m == MatchAt(p, s, i) IN
         IF m.ok /\ m.end > i
         THEN Expand(rp, s, [start |-> i, end |-> m.end, grp |-> m.grp])
                  \o SubFrom(p, rp, s, m.end)
         ELSE (IF m.ok THEN Expand(rp, s, [start |-> i, end |-> i, grp |-> m.grp])
               ELSE <<>>)
              \o (IF i <= Len(s) THEN <<s[i]>> ELSE <<>>)
              \o SubFrom(p, rp, s, i + 1)

Sub(p, rp, s) == SubFrom(p, rp, s, 1)

-----------------------------------------------------------------------------
(* Replacement templates: a string given to re.sub as the replacement is    *)
(* parsed for backslash escapes before any match is replaced.               *)

OtherChr == "<chr>"     \* any character outside Sigma that an escape can write

Ord(c) ==
    IF c \in Digits THEN 47 + (CHOOSE i \in 1..10 : DigitSeq[i] = c)
    ELSE IF c \in UpperSet THEN 64 + (CHOOSE i \in 1..26 : UpperSeq[i] = c)
    ELSE IF c \in LowerSet THEN 96 + (CHOOSE i \in 1..26 : LowerSeq[i] = c)
    ELSE CASE c = BEL -> 7 [] c = BS -> 8 [] c = TAB -> 9 [] c = NL -> 10
           [] c = VT -> 11 [] c = FF -> 12 [] c = CR -> 13 [] c = " " -> 32
           [] c = DQ -> 34 [] c = "&" -> 38 [] c = "'" -> 39 [] c = "(" -> 40
           [] c = ")" -> 41 [] c = "*" -> 42 [] c = "+" -> 43 [] c = "," -> 44
           [] c = "-" -> 45 [] c = "." -> 46 [] c = "/" -> 47 [] c = ";" -> 59
           [] c = "<" -> 60 [] c = "=" -> 61 [] c = ">" -> 62 [] c = "[" -> 91
           [] c = BSL -> 92 [] c = "]" -> 93 [] c = "_" -> 95 [] c = BQ -> 96
           [] OTHER -> 256

Chr(n) == IF \E c \in Sigma : Ord(c) = n THEN CHOOSE c \in Sigma : Ord(c) = n
          ELSE OtherChr

DigitVal(c) == (CHOOSE i \in 1..10 : DigitSeq[i] = c) - 1

RECURSIVE OctVal(_)
OctVal(ds) == IF ds = <<>> THEN 0 ELSE 8 * OctVal(SubSeq(ds, 1, Len(ds) - 1)) + DigitVal(ds[Len(ds)])

\* the characters ESCAPES of re._parser turns a backslash and a letter into
EscapeLetters == {"a", "b", "f", "n", "r", "t", "v"}
EscapeChar(c) == CASE c = "a" -> BEL [] c = "b" -> BS [] c = "f" -> FF [] c = "n" -> NL
                   [] c = "r" -> CR [] c = "t" -> TAB [] c = "v" -> VT

IsOct(t, i) == i <= Len(t) /\ t[i] \in OctDigits
IsDigit(t, i) == i <= Len(t) /\ t[i] \in Digits

\* the position of the first ">" at or after i, 0 when there is none
RECURSIVE FindClose(_, _)
FindClose(t, i) == IF i > Len(t) THEN 0 ELSE IF t[i] = ">" THEN i ELSE FindClose(t, i + 1)

\* What re._parser.parse_template makes of the escape that starts at t[i] = "\",
\* for a pattern without groups: [ok, part, next].
Escape(t, i) ==
    IF i = Len(t) THEN [ok |-> FALSE]                          \* bad escape (end of pattern)
    ELSE LET c == t[i + 1] IN
    IF c = "g" THEN
        LET e == FindClose(t, i + 3) IN
        IF i + 2 <= Len(t) /\ t[i + 2] = "<" /\ e > i + 3
           /\ \A k \in (i + 3)..(e - 1) : t[k] = "0"
        THEN [ok |-> TRUE, part |-> RAll, next |-> e + 1]
        ELSE [ok |-> FALSE]         \* missing <, unknown group name, invalid group reference
    ELSE IF c = "0" THEN
        LET n == IF IsOct(t, i + 2) THEN (IF IsOct(t, i + 3) THEN 3 ELSE 2) ELSE 1 IN
        [ok |-> TRUE, part |-> RLit(<<Chr(OctVal(SubSeq(t, i + 1, i + n)) % 256)>>),
         next |-> i + n + 1]
    ELSE IF c \in Digits THEN
        IF IsDigit(t, i + 2) /\ c \in OctDigits /\ IsOct(t, i + 2) /\ IsOct(t, i + 3)
           /\ OctVal(SubSeq(t, i + 1, i + 3)) <= 255
        THEN [ok |-> TRUE, part |-> RLit(<<Chr(OctVal(SubSeq(t, i + 1, i + 3)))>>),
              next |-> i + 4]
        ELSE [ok |-> FALSE]                                    \* invalid group reference
    ELSE IF c \in EscapeLetters THEN
        [ok |-> TRUE, part |-> RLit(<<EscapeChar(c)>>), next |-> i + 2]
    ELSE IF c = BSL THEN [ok |-> TRUE, part |-> RLit(<<BSL>>), next |-> i + 2]
    ELSE IF c \in Letters THEN [ok |-> FALSE]                  \* bad escape
    ELSE [ok |-> TRUE, part |-> RLit(<<BSL, c>>), next |-> i + 2]

RECURSIVE TemplateOk(_, _)
TemplateOk(t, i) ==
    IF i > Len(t) THEN TRUE
    ELSE IF t[i] # BSL THEN TemplateOk(t, i + 1)
    ELSE LET e == Escape(t, i) IN e.ok /\ TemplateOk(t, e.next)

RECURSIVE ParseTemplate(_, _)
ParseTemplate(t, i) ==
    IF i > Len(t) THEN <<>>
    ELSE IF t[i] # BSL THEN <<RLit(<<t[i]>>)>> \o ParseTemplate(t, i + 1)
    ELSE LET e == Escape(t, i) IN <<e.part>> \o ParseTemplate(t, e.next)

\* the re.error a call raises, in place of the text it would return
ReError == <<"re.error">>

\* re.sub(p, repl, s) with a replacement string
SubTemplate(p, repl, s) ==
    IF TemplateOk(repl, 1) THEN Sub(p, ParseTemplate(repl, 1), s) ELSE ReError

-----------------------------------------------------------------------------
(* File + text utilities *)

LineComment == Lit(<<"-", "-">>) \o <<LazyStar(Dot), EOL>>              \* --.*?$
BlockComment == Lit(<<"/", "*">>) \o <<LazyStar(DotAll)>> \o Lit(<<"*", "/">>)  \* /\*.*?\*/
SpacesOnly == <<Plus({" "})>>                                            \* " +"
Whitespace == <<Plus(Space)>>                                            \* \s+
Bracketed == Lit(<<"[">>) \o <<Open(1), Plus(Not({"]"})), Close(1)>> \o Lit(<<"]">>)
Backquoted == Lit(<<BQ>>) \o <<Open(1), Plus(Not({BQ})), Close(1)>> \o Lit(<<BQ>>)

strip_sql_comments(sql) == Sub(BlockComment, <<>>, Sub(LineComment, <<>>, sql))

\* normalize_whitespace with the re.sub forgotten: the ends are stripped, the runs
\* inside the text are kept
normalize_whitespace_strip_only(sql) == Strip(sql)

normalize_whitespace(sql) == Strip(Sub(Whitespace, <<RLit(<<" ">>)>>, sql))

remove_identifier_brackets(sql) ==
    Sub(Backquoted, <<RGrp(1)>>, Sub(Bracketed, <<RGrp(1)>>, sql))

\* re.escape(src) under re.IGNORECASE: every character stands for itself
Escaped(src) == LitCI(src)

RECURSIVE apply_schema_mapping(_, _)
apply_schema_mapping(sql, mapping) ==
    IF mapping = <<>> THEN sql
    ELSE LET s == SubTemplate(Escaped(mapping[1][1]), mapping[1][2], sql) IN
         IF s = ReError THEN ReError ELSE apply_schema_mapping(s, Tail(mapping))

\* normalize_step with the strip-comments option ignored: comments are always
\* stripped.
normalize_step_always_strips(k, s, o, mapping) ==
    CASE k = 1 -> strip_sql_comments(s)
      [] k = 2 -> IF o.drop_brackets THEN remove_identifier_brackets(s) ELSE s
      [] k = 3 -> IF mapping # <<>> THEN apply_schema_mapping(s, mapping) ELSE s
      [] k = 4 -> IF o.casefold THEN Lower(s) ELSE s
      [] k = 5 -> IF o.collapse_ws THEN normalize_whitespace(s) ELSE s

\* the k-th of the five conditional statements of normalize_for_compare
normalize_step(k, s, o, mapping) ==
    CASE k = 1 -> IF o.strip_comments_opt THEN strip_sql_comments(s) ELSE s
      [] k = 2 -> IF o.drop_brackets THEN remove_identifier_brackets(s) ELSE s
      [] k = 3 -> IF mapping # <<>> THEN apply_schema_mapping(s, mapping) ELSE s
      [] k = 4 -> IF o.casefold THEN Lower(s) ELSE s
      [] k = 5 -> IF o.collapse_ws THEN normalize_whitespace(s) ELSE s

\* the statements from the k-th on; a re.error ends the function
RECURSIVE NormalizeFrom(_, _, _, _)
NormalizeFrom(k, s, o, mapping) ==
    IF k > 5 \/ s = ReError THEN s
    ELSE NormalizeFrom(k + 1, normalize_step(k, s, o, mapping), o, mapping)

normalize_for_compare(sql, o, mapping) ==
    IF sql = <<>> THEN <<>> ELSE NormalizeFrom(1, sql, o, mapping)

-----------------------------------------------------------------------------
(* T-SQL -> Snowflake translator (src/app.py).  A note is [msg, n]: the     *)
(* message, and for the TOP note the digits its text is formatted with.     *)
(* The back quotes of the messages are written ' here.                      *)

Note(msg) == [msg |-> msg, n |-> <<>>]

CommentsNote == Note("Removed T-SQL comments.")
BracketsNote == Note("Converted '[identifier]' to double-quoted identifiers.")
IsnullNote == Note("Replaced ISNULL with COALESCE.")
GetdateNote == Note("Replaced GETDATE() with CURRENT_TIMESTAMP.")
LenNote == Note("Replaced LEN() with LENGTH().")
DatediffNote == Note("Check DATEDIFF order: Snowflake expects (unit, start, end).")
NolockNote == Note("Removed WITH (NOLOCK) hints; Snowflake handles isolation differently.")
ConvertNote == Note("Converted CONVERT(...) to CAST(... AS ...).")
TopNote(n) == [msg |-> "Translated TOP {n} to LIMIT {n}.", n |-> n]
MappingNote == Note("Applied schema/schema-prefix mapping.")

IsnullCall == <<WB>> \o LitCI(<<"I","S","N","U","L","L">>) \o <<Star(Space)>> \o Lit(<<"(">>)
GetdateCall == <<WB>> \o LitCI(<<"G","E","T","D","A","T","E">>) \o <<Star(Space)>>
                   \o Lit(<<"(">>) \o <<Star(Space)>> \o Lit(<<")">>)
LenCall == <<WB>> \o LitCI(<<"L","E","N">>) \o <<Star(Space)>> \o Lit(<<"(">>)
DatediffCall == <<WB>> \o LitCI(<<"D","A","T","E","D","I","F","F">>) \o <<Star(Space)>>
                    \o Lit(<<"(">>)
NolockHint == <<WB>> \o LitCI(<<"W","I","T","H">>) \o <<Star(Space)>> \o Lit(<<"(">>)
                  \o <<Star(Space)>> \o LitCI(<<"N","O","L","O","C","K">>)
                  \o <<Star(Space)>> \o Lit(<<")">>)
\* \bCONVERT\s*\(\s*([A-Za-z0-9_]+)\s*,\s*(.*?)\)
ConvertCall == <<WB>> \o LitCI(<<"C","O","N","V","E","R","T">>) \o <<Star(Space)>>
                   \o Lit(<<"(">>) \o <<Star(Space), Open(1), Plus(WordChars), Close(1),
                                        Star(Space)>>
                   \o Lit(<<",">>) \o <<Star(Space), Open(2), LazyStar(Dot), Close(2)>>
                   \o Lit(<<")">>)
\* \bSELECT\s+TOP\s+(\d+)\s+
SelectTop == <<WB>> \o LitCI(<<"S","E","L","E","C","T">>) \o <<Plus(Space)>>
                 \o LitCI(<<"T","O","P">>) \o <<Plus(Space), Open(1), Plus(Digits), Close(1),
                                             Plus(Space)>>
\* (\bSELECT\s+)TOP\s+\d+\s+
SelectThenTop == <<Open(1), WB>> \o LitCI(<<"S","E","L","E","C","T">>) \o <<Plus(Space), Close(1)>>
                     \o LitCI(<<"T","O","P">>) \o <<Plus(Space), Plus(Digits), Plus(Space)>>
\* \bLIMIT\s+\d+\b
LimitClause == <<WB>> \o LitCI(<<"L","I","M","I","T">>) \o <<Plus(Space), Plus(Digits), WB>>
\* ;\s*;
DoubleSemicolon == Lit(<<";">>) \o <<Star(Space)>> \o Lit(<<";">>)

COALESCE == <<"C","O","A","L","E","S","C","E","(">>
CURRENT_TIMESTAMP == <<"C","U","R","R","E","N","T","_","T","I","M","E","S","T","A","M","P">>
LENGTH == <<"L","E","N","G","T","H","(">>
DATEDIFF == <<"D","A","T","E","D","I","F","F","(">>

\* the replacements table: <<pattern, repl, msg>>
replacements == <<
    <<IsnullCall, COALESCE, IsnullNote>>,
    <<GetdateCall, CURRENT_TIMESTAMP, GetdateNote>>,
    <<LenCall, LENGTH, LenNote>>,
    <<DatediffCall, DATEDIFF, DatediffNote>> >>
\* Noted with the test of a change forgotten: the note is appended every time.
NotedAlways(st, new_s, note) == [s |-> new_s, notes |-> Append(st.notes, note)]

\* A step of the translator takes and gives [s, notes], the function's two locals.
Noted(st, new_s, note) ==
    IF new_s # st.s THEN [s |-> new_s, notes |-> Append(st.notes, note)]
    ELSE [s |-> new_s, notes |-> st.notes]

CommentsStep(st) == Noted(st, strip_sql_comments(st.s), CommentsNote)

\* _bracket_to_quoted
BracketsStep(st) ==
    Noted(st, Sub(Bracketed, <<RLit(<<DQ>>), RGrp(1), RLit(<<DQ>>)>>, st.s), BracketsNote)

ReplacementStep(st, k) ==
    Noted(st, Sub(replacements[k][1], <<RLit(replacements[k][2])>>, st.s), replacements[k][3])

NolockStep(st) == Noted(st, Sub(NolockHint, <<>>, st.s), NolockNote)

\* _convert_to_cast
ConvertStep(st) ==
    Noted(st, Sub(ConvertCall,
                  <<RLit(<<"C","A","S","T","(">>), RStrip(2), RLit(<<" ","A","S"," ">>),
                    RStrip(1), RLit(<<")">>)>>, st.s),
          ConvertNote)

TopStep(st) ==
    LET top_match == Search(SelectTop, st.s) IN
    IF top_match.ok
    THEN LET n == Group(st.s, top_match, 1)
             s1 == Sub(SelectThenTop, <<RGrp(1)>>, st.s)
             s2 == IF ~Found(LimitClause, s1)
                   THEN RStripSet(s1, {" ", ";", NL}) \o <<NL, "L","I","M","I","T"," ">> \o n \o <<";">>
                   ELSE s1
         IN [s |-> s2, notes |-> Append(st.notes, TopNote(n))]
    ELSE st

MappingStep(st, mapping) ==
    IF mapping # <<>>
    THEN Noted(st, apply_schema_mapping(st.s, mapping), MappingNote)
    ELSE st

SemicolonStep(st) == [s |-> Sub(DoubleSemicolon, <<RLit(<<";">>)>>, st.s), notes |-> st.notes]

WhitespaceStep(st) == [s |-> normalize_whitespace(st.s), notes |-> st.notes]

\* the k-th step of t_sql_to_snowflake
translate_step(k, st, mapping) ==
    CASE k = 1 -> CommentsStep(st)
      [] k = 2 -> BracketsStep(st)
      [] k \in 3..6 -> ReplacementStep(st, k - 2)
      [] k = 7 -> NolockStep(st)
      [] k = 8 -> ConvertStep(st)
      [] k = 9 -> TopStep(st)
      [] k = 10 -> MappingStep(st, mapping)
      [] k = 11 -> SemicolonStep(st)
      [] k = 12 -> WhitespaceStep(st)

\* acc is the locals [s, notes] at the start and after each step before the k-th;
\* after a re.error no step is taken
RECURSIVE StepsFrom(_, _, _)
StepsFrom(k, acc, mapping) ==
    IF k > 12 THEN acc
    ELSE StepsFrom(k + 1,
                   Append(acc, IF acc[k].s = ReError THEN acc[k]
                               ELSE translate_step(k, acc[k], mapping)),
                   mapping)

\* The locals after each step of t_sql_to_snowflake, the arguments first.
translate_steps(sql, mapping) == StepsFrom(1, <<[s |-> sql, notes |-> <<>>]>>, mapping)

Last(q) == q[Len(q)]

t_sql_to_snowflake(sql, mapping) == Last(translate_steps(sql, mapping))

-----------------------------------------------------------------------------
(* Difference explainer (src/app.py).  An explanation is [msg, tokens]: the *)
(* message, and for a vocabulary message the tokens joined into its text.   *)

VocabCap == 10
MinTokenLen == 3

Kw(str) == <<WB>> \o LitCI(str)
\* the checks table: <<pattern, msg>>
checks == <<
    <<IsnullCall, "T-SQL uses 'ISNULL'; Snowflake prefers 'COALESCE'.">>,
    <<GetdateCall, "'GETDATE()' exists only in T-SQL; map to 'CURRENT_TIMESTAMP'.">>,
    <<LenCall, "'LEN()' should become 'LENGTH()' in Snowflake.">>,
    <<Kw(<<"N","V","A","R","C","H","A","R">>) \o <<WB>>,
      "'NVARCHAR' types need to become 'VARCHAR' (Snowflake stores UTF-8 by default).">>,
    <<NolockHint,
      "'WITH (NOLOCK)' hints are unsupported in Snowflake; remove or redesign isolation.">>,
    <<Kw(<<"I","D","E","N","T","I","T","Y">>) \o <<Star(Space)>> \o Lit(<<"(">>),
      "'IDENTITY()' sequences must be replaced with 'IDENTITY' columns or sequences in Snowflake.">>,
    <<Kw(<<"T","O","P">>) \o <<Plus(Space), Plus(Digits)>>,
      "'TOP N' should be rewritten as 'LIMIT N' (optionally with 'ORDER BY').">>,
    <<Kw(<<"M","E","R","G","E">>) \o <<WB>>,
      "Review 'MERGE' syntax differences, especially 'OUTPUT' clauses and semicolons.">>,
    <<Kw(<<"C","R","O","S","S">>) \o <<Star(Space)>> \o LitCI(<<"A","P","P","L","Y">>) \o <<WB>>,
      "'CROSS APPLY'/'OUTER APPLY' need rewrites using 'LATERAL FLATTEN' or joins in Snowflake.">> >>

OnlyTsqlMsg == "Tokens present only in the T-SQL EXP (check they were migrated): "
OnlySnowMsg == "Tokens present only in the Snowflake EXP (verify intentional additions): "

\* \b[A-Za-z_][A-Za-z0-9_]*\b
Identifier == <<WB, One(Letters \cup {"_"}), Star(WordChars), WB>>

\* re.findall(p, s) for a pattern that matches no empty text
RECURSIVE FindAllFrom(_, _, _)
FindAllFrom(p, s, i) ==
    LET m == SearchFrom(p, s, i) IN
    IF m.ok /\ m.end > m.start
    THEN <<Slice(s, m.start, m.end)>> \o FindAllFrom(p, s, m.end)
    ELSE <<>>

FindAll(p, s) == FindAllFrom(p, s, 1)

\* x < y for two strings, as Python compares them: by code point, a prefix first
RECURSIVE StrLess(_, _)
StrLess(x, y) ==
    IF y = <<>> THEN FALSE
    ELSE IF x = <<>> THEN TRUE
    ELSE IF Head(x) # Head(y) THEN Ord(Head(x)) < Ord(Head(y))
    ELSE StrLess(Tail(x), Tail(y))

RECURSIVE sorted(_)
sorted(S) ==
    IF S = {} THEN <<>>
    ELSE LET m == CHOOSE x \in S : \A y \in S \ {x} : StrLess(x, y)
         IN <<m>> \o sorted(S \ {m})

Prefix(q, n) == IF Len(q) <= n THEN q ELSE SubSeq(q, 1, n)

Tokens(text) == Range(FindAll(Identifier, Lower(text)))

\* Unique with len(t) >= 3 in place of len(t) > 3
UniqueFromThree(a_tokens, b_tokens) ==
    Prefix(sorted({t \in a_tokens \ b_tokens : Len(t) >= MinTokenLen}), VocabCap)

\* sorted(t for t in (a_tokens - b_tokens) if len(t) > 3)[:10]
Unique(a_tokens, b_tokens) ==
    Prefix(sorted({t \in a_tokens \ b_tokens : Len(t) > MinTokenLen}), VocabCap)

\* ConstructMessages without the search of the Snowflake text: a construct of the
\* T-SQL text is reported also when the Snowflake text has it.
RECURSIVE ConstructsOfTsql(_, _, _)
ConstructsOfTsql(a, b, k) ==
    IF k > Len(checks) THEN <<>>
    ELSE (IF Found(checks[k][1], a)
          THEN <<[msg |-> checks[k][2], tokens |-> <<>>]>> ELSE <<>>)
         \o ConstructsOfTsql(a, b, k + 1)

RECURSIVE ConstructMessages(_, _, _)
ConstructMessages(a, b, k) ==
    IF k > Len(checks) THEN <<>>
    ELSE (IF Found(checks[k][1], a) /\ ~Found(checks[k][1], b)
          THEN <<[msg |-> checks[k][2], tokens |-> <<>>]>> ELSE <<>>)
         \o ConstructMessages(a, b, k + 1)

explain_differences(a, b) ==
    IF a = <<>> \/ b = <<>> THEN <<>>
    ELSE LET tsql_tokens == Tokens(a)
             snow_tokens == Tokens(b)
             unique_tsql == Unique(tsql_tokens, snow_tokens)
             unique_snow == Unique(snow_tokens, tsql_tokens)
         IN ConstructMessages(a, b, 1)
            \o (IF unique_tsql # <<>> THEN <<[msg |-> OnlyTsqlMsg, tokens |-> unique_tsql]>>
                ELSE <<>>)
            \o (IF unique_snow # <<>> THEN <<[msg |-> OnlySnowMsg, tokens |-> unique_snow]>>
                ELSE <<>>)

-----------------------------------------------------------------------------
(* difflib.SequenceMatcher(None, a, b), as the diff functions use it.  The  *)
(* indices are Python's: a[i] of the source is a[i + 1] here.  No element   *)
(* is junk (isjunk is None), and the texts of the model are shorter than    *)
(* the 200 elements from which autojunk drops popular elements.             *)

\* j2len[j] while row i is scanned: the length of the longest match that ends
\* at a[i] and b[j] inside a[alo:], b[blo:]
RECURSIVE MatchEnding(_, _, _, _, _, _)
MatchEnding(a, b, i, j, alo, blo) ==
    IF a[i + 1] # b[j + 1] THEN 0
    ELSE IF i > alo /\ j > blo THEN 1 + MatchEnding(a, b, i - 1, j - 1, alo, blo)
    ELSE 1

\* (besti, bestj, bestsize): the rows i and in them the columns j are scanned
\* upwards and a longer match replaces the best one, so the best is the first
\* longest one.
find_longest_match(a, b, alo, ahi, blo, bhi) ==
    LET cells == (alo..(ahi - 1)) \X (blo..(bhi - 1))
        size(c) == MatchEnding(a, b, c[1], c[2], alo, blo)
        before(c, d) == c[1] < d[1] \/ (c[1] = d[1] /\ c[2] < d[2])
        hits == {c \in cells : size(c) > 0}
    IN  IF hits = {} THEN <<alo, blo, 0>>
        ELSE LET c == CHOOSE x \in hits :
                          \A y \in hits \ {x} :
                              size(x) > size(y) \/ (size(x) = size(y) /\ before(x, y))
                 k == size(c)
             IN <<c[1] - k + 1, c[2] - k + 1, k>>

\* the matching blocks of a[alo:ahi] and b[blo:bhi], sorted
RECURSIVE BlocksIn(_, _, _, _, _, _)
BlocksIn(a, b, alo, ahi, blo, bhi) ==
    LET x == find_longest_match(a, b, alo, ahi, blo, bhi)
        i == x[1]
        j == x[2]
        k == x[3]
    IN  IF k = 0 THEN <<>>
        ELSE (IF alo < i /\ blo < j THEN BlocksIn(a, b, alo, i, blo, j) ELSE <<>>)
             \o <<x>>
             \o (IF i + k < ahi /\ j + k < bhi THEN BlocksIn(a, b, i + k, ahi, j + k, bhi)
                 ELSE <<>>)

\* adjacent equal blocks collapsed; cur is (i1, j1, k1)
RECURSIVE NonAdjacent(_, _)
NonAdjacent(blocks, cur) ==
    IF blocks = <<>> THEN (IF cur[3] # 0 THEN <<cur>> ELSE <<>>)
    ELSE LET nxt == Head(blocks) IN
         IF cur[1] + cur[3] = nxt[1] /\ cur[2] + cur[3] = nxt[2]
         THEN NonAdjacent(Tail(blocks), <<cur[1], cur[2], cur[3] + nxt[3]>>)
         ELSE (IF cur[3] # 0 THEN <<cur>> ELSE <<>>) \o NonAdjacent(Tail(blocks), nxt)

get_matching_blocks(a, b) ==
    Append(NonAdjacent(BlocksIn(a, b, 0, Len(a), 0, Len(b)), <<0, 0, 0>>),
           <<Len(a), Len(b), 0>>)

\* an opcode is <<tag, i1, i2, j1, j2>>
RECURSIVE OpcodesFrom(_, _, _)
OpcodesFrom(blocks, i, j) ==
    IF blocks = <<>> THEN <<>>
    ELSE LET ai == Head(blocks)[1]
             bj == Head(blocks)[2]
             size == Head(blocks)[3]
             tag == IF i < ai /\ j < bj THEN "replace"
                    ELSE IF i < ai THEN "delete"
                    ELSE IF j < bj THEN "insert"
                    ELSE ""
         IN (IF tag # "" THEN <<<<tag, i, ai, j, bj>>>> ELSE <<>>)
            \o (IF size # 0 THEN <<<<"equal", ai, ai + size, bj, bj + size>>>> ELSE <<>>)
            \o OpcodesFrom(Tail(blocks), ai + size, bj + size)

get_opcodes(a, b) == OpcodesFrom(get_matching_blocks(a, b), 0, 0)

RECURSIVE SumSizes(_)
SumSizes(blocks) == IF blocks = <<>> THEN 0 ELSE Head(blocks)[3] + SumSizes(Tail(blocks))

\* _calculate_ratio: the float 2.0 * matches / length as the fraction num / den,
\* and 1.0 for two empty sequences
ratio(a, b) ==
    LET matches == SumSizes(get_matching_blocks(a, b))
        length == Len(a) + Len(b)
    IN  IF length # 0 THEN [num |-> 2 * matches, den |-> length] ELSE [num |-> 1, den |-> 1]

SameRatio(r1, r2) == r1.num * r2.den = r2.num * r1.den

-----------------------------------------------------------------------------
(* Inline diff helpers, token level (src/app.py) *)

NonWord == Sigma \ WordChars                                            \* \W

\* re.split without the group of the pattern: the separators are dropped
RECURSIVE SplitWordsFrom(_, _, _)
SplitWordsFrom(s, i, cur) ==
    IF i > Len(s) THEN <<cur>>
    ELSE IF s[i] \in NonWord
         THEN <<cur>> \o SplitWordsFrom(s, i + RunLength(s, i, NonWord), <<>>)
         ELSE SplitWordsFrom(s, i + 1, Append(cur, s[i]))

tokenize_without_group(s) == SplitWordsFrom(s, 1, <<>>)

\* re.split(r"(\W+)", s) from position i on, cur being the token begun: the text
\* between two separators, then the separator, and the rest of the text at the end
RECURSIVE SplitFrom(_, _, _)
SplitFrom(s, i, cur) ==
    IF i > Len(s) THEN <<cur>>
    ELSE IF s[i] \in NonWord
         THEN <<cur, SubSeq(s, i, i + RunLength(s, i, NonWord) - 1)>>
                  \o SplitFrom(s, i + RunLength(s, i, NonWord), <<>>)
         ELSE SplitFrom(s, i + 1, Append(cur, s[i]))

tokenize_for_inline(s) == SplitFrom(s, 1, <<>>)

\* html.escape(s), quote=True
EscapeHtml(c) ==
    CASE c = "&" -> <<"&", "a", "m", "p", ";">>
      [] c = "<" -> <<"&", "l", "t", ";">>
      [] c = ">" -> <<"&", "g", "t", ";">>
      [] c = DQ -> <<"&", "q", "u", "o", "t", ";">>
      [] c = "'" -> <<"&", "#", "x", "2", "7", ";">>
      [] OTHER -> <<c>>
html_escape(s) == Concat([i \in 1..Len(s) |-> EscapeHtml(s[i])])

SpanOpen(cls) == <<"<", "s", "p", "a", "n", " ", "c", "l", "a", "s", "s", "=", "'">> \o cls \o <<"'", ">">>
SpanClose == <<"<", "/", "s", "p", "a", "n", ">">>
seg_repl == <<"s", "e", "g", "-", "r", "e", "p", "l">>
seg_del == <<"s", "e", "g", "-", "d", "e", "l">>
seg_ins == <<"s", "e", "g", "-", "i", "n", "s">>

\* a segment of a side: as it is under an equal opcode, in a span when it is not
\* empty under another
Segment(seg, cls) ==
    IF cls = <<>> THEN seg
    ELSE IF seg # <<>> THEN SpanOpen(cls) \o seg \o SpanClose ELSE <<>>

\* what one opcode appends to a_out
SegmentA(a_toks, op) ==
    CASE op[1] = "equal" -> Segment(html_escape(Concat(SubSeq(a_toks, op[2] + 1, op[3]))), <<>>)
      [] op[1] = "replace" -> Segment(html_escape(Concat(SubSeq(a_toks, op[2] + 1, op[3]))), seg_repl)
      [] op[1] = "delete" -> Segment(html_escape(Concat(SubSeq(a_toks, op[2] + 1, op[3]))), seg_del)
      [] op[1] = "insert" -> <<>>

\* what one opcode appends to b_out
SegmentB(b_toks, op) ==
    CASE op[1] = "equal" -> Segment(html_escape(Concat(SubSeq(b_toks, op[4] + 1, op[5]))), <<>>)
      [] op[1] = "replace" -> Segment(html_escape(Concat(SubSeq(b_toks, op[4] + 1, op[5]))), seg_repl)
      [] op[1] = "insert" -> Segment(html_escape(Concat(SubSeq(b_toks, op[4] + 1, op[5]))), seg_ins)
      [] op[1] = "delete" -> <<>>

RECURSIVE OutA(_, _)
OutA(a_toks, ops) ==
    IF ops = <<>> THEN <<>> ELSE SegmentA(a_toks, Head(ops)) \o OutA(a_toks, Tail(ops))
RECURSIVE OutB(_, _)
OutB(b_toks, ops) ==
    IF ops = <<>> THEN <<>> ELSE SegmentB(b_toks, Head(ops)) \o OutB(b_toks, Tail(ops))

\* the loop over the opcodes: the tokens, the opcodes walked and the two strings
\* returned
InlineOf(a_toks, b_toks, ops) ==
    [a_toks |-> a_toks, b_toks |-> b_toks, opcodes |-> ops,
     a |-> OutA(a_toks, ops), b |-> OutB(b_toks, ops)]

InlineOfTokens(a_toks, b_toks) == InlineOf(a_toks, b_toks, get_opcodes(a_toks, b_toks))

inline_diff_html(a_line, b_line) ==
    InlineOfTokens(tokenize_for_inline(a_line), tokenize_for_inline(b_line))

-----------------------------------------------------------------------------
(* Side-by-side diff (src/app.py) *)

LineBreaks == {NL, CR, FF, VT}

\* str.splitlines(): "\r\n" is one line break, and a text that ends with a line
\* break has no empty last line
RECURSIVE SplitLinesFrom(_, _, _)
SplitLinesFrom(s, i, cur) ==
    IF i > Len(s) THEN (IF cur # <<>> THEN <<cur>> ELSE <<>>)
    ELSE IF s[i] = CR /\ i < Len(s) /\ s[i + 1] = NL THEN <<cur>> \o SplitLinesFrom(s, i + 2, <<>>)
    ELSE IF s[i] \in LineBreaks THEN <<cur>> \o SplitLinesFrom(s, i + 1, <<>>)
    ELSE SplitLinesFrom(s, i + 1, Append(cur, s[i]))

splitlines(s) == SplitLinesFrom(s, 1, <<>>)

Max(x, y) == IF x >= y THEN x ELSE y

\* OpcodeRows with min in place of max: the rows of a replace stop with the
\* shorter side.
OpcodeRowsZipped(a_lines, b_lines, op) ==
    LET tag == op[1]
        i1 == op[2]
        i2 == op[3]
        j1 == op[4]
        j2 == op[5]
        Min(x, y) == IF x <= y THEN x ELSE y
    IN  IF tag = "equal"
        THEN [k \in 1..(i2 - i1) |->
                 [cls |-> "ok", i |-> i1 + k - 1, j |-> j1 + k - 1,
                  a_line |-> a_lines[i1 + k], b_line |-> b_lines[j1 + k]]]
        ELSE [k \in 1..Min(i2 - i1, j2 - j1) |->
                 [cls |-> "bad", i |-> i1 + k - 1, j |-> j1 + k - 1,
                  a_line |-> a_lines[i1 + k], b_line |-> b_lines[j1 + k]]]

\* The rows one opcode adds.  A row is [cls, i, j, a_line, b_line]: the class of
\* its two cells, the lines shown left and right, and their indices in a_lines
\* and b_lines (-1 for the empty text that fills a side without a line).
OpcodeRows(a_lines, b_lines, op) ==
    LET tag == op[1]
        i1 == op[2]
        i2 == op[3]
        j1 == op[4]
        j2 == op[5]
    IN  IF tag = "equal"
        THEN [k \in 1..(i2 - i1) |->
                 [cls |-> "ok", i |-> i1 + k - 1, j |-> j1 + k - 1,
                  a_line |-> a_lines[i1 + k], b_line |-> b_lines[j1 + k]]]
        ELSE [k \in 1..Max(i2 - i1, j2 - j1) |->
                 [cls |-> "bad",
                  i |-> IF i1 + k - 1 < i2 THEN i1 + k - 1 ELSE -1,
                  j |-> IF j1 + k - 1 < j2 THEN j1 + k - 1 ELSE -1,
                  a_line |-> IF i1 + k - 1 < i2 THEN a_lines[i1 + k] ELSE <<>>,
                  b_line |-> IF j1 + k - 1 < j2 THEN b_lines[j1 + k] ELSE <<>>]]

RECURSIVE RowsOf(_, _, _)
RowsOf(a_lines, b_lines, ops) ==
    IF ops = <<>> THEN <<>>
    ELSE OpcodeRows(a_lines, b_lines, Head(ops)) \o RowsOf(a_lines, b_lines, Tail(ops))

\* the opcodes the function walks and the rows of the table it returns
side_by_side_html(a_text, b_text) ==
    LET a_lines == splitlines(a_text)
        b_lines == splitlines(b_text)
        ops == get_opcodes(a_lines, b_lines)
    IN  [a_lines |-> a_lines, b_lines |-> b_lines, opcodes |-> ops,
         rows |-> RowsOf(a_lines, b_lines, ops)]

-----------------------------------------------------------------------------
(* Tab A: Compare (src/app.py).  What one run of the tab computes from the  *)
(* two raw texts and the sidebar, when both texts are non-empty.            *)

\* the part of the tab after the two normalize_for_compare calls
Compared(raw_tsql, raw_snow, norm_tsql, norm_snow) ==
    IF norm_tsql = ReError \/ norm_snow = ReError THEN ReError
    ELSE [norm_tsql |-> norm_tsql, norm_snow |-> norm_snow,
          ratio |-> ratio(norm_tsql, norm_snow),
          table |-> side_by_side_html(norm_tsql, norm_snow),
          explanations |-> explain_differences(raw_tsql, raw_snow)]

compare_tab(raw_tsql, raw_snow, o, mapping) ==
    Compared(raw_tsql, raw_snow, normalize_for_compare(raw_tsql, o, mapping),
             normalize_for_compare(raw_snow, o, mapping))

-----------------------------------------------------------------------------
(* The inputs.  A text is drawn as a sequence of at most n fragments.       *)

Seqs(S, n) == UNION {[1..k -> S] : k \in 0..n}
Texts(frags, n) == {Concat(fs) : fs \in Seqs(frags, n)}

NoOpts == [strip_comments_opt |-> FALSE, casefold |-> FALSE, collapse_ws |-> FALSE,
           drop_brackets |-> FALSE]
AllOpts == [strip_comments_opt : BOOLEAN, casefold : BOOLEAN, collapse_ws : BOOLEAN,
            drop_brackets : BOOLEAN]

\* the sidebar as the page first shows it
SidebarOpts == [strip_comments_opt |-> TRUE, casefold |-> TRUE, collapse_ws |-> TRUE,
                drop_brackets |-> TRUE]
SidebarMapping == << <<<<"d","b","o",".">>, <<"P","U","B","L","I","C",".">>>>,
                    <<<<"[","d","b","o","]",".">>, <<"P","U","B","L","I","C",".">>>> >>

-----------------------------------------------------------------------------
(* normalize_for_compare, applied to a text and then to its own output *)

MaxNormFrags == 3
MaxNormCalls == 2
NormFrags == {<<"A">>, <<"b">>, <<" ">>, <<NL>>, <<"-">>, <<"/", "*", "*", "/">>,
              <<"[", "b", "]">>}
NormMaps == {<<>>, << <<<<"b">>, <<"b", "B">>>> >>}

InitNormalize ==
    /\ tsql \in Texts(NormFrags, MaxNormFrags)
    /\ snow = <<>>
    /\ schema_map \in NormMaps
    /\ opts \in AllOpts
    /\ ret = <<>>
    /\ steps = <<>>

Normalize ==
    /\ Len(ret) < MaxNormCalls
    /\ LET sql == IF ret = <<>> THEN tsql ELSE ret[Len(ret)].out IN
       /\ sql # ReError
       /\ ret' = Append(ret, [fn |-> "normalize_for_compare", sql |-> sql,
                              out |-> normalize_for_compare(sql, opts, schema_map)])
    /\ UNCHANGED <<tsql, snow, schema_map, opts, steps>>

NextNormalize == Normalize
SpecNormalize == InitNormalize /\ [][NextNormalize]_vars

-----------------------------------------------------------------------------
(* strip_sql_comments, on texts with line comments and with block comments  *)
(* closed, open and one after the other                                     *)

StripComments ==
    /\ ret = <<>>
    /\ ret' = <<[fn |-> "strip_sql_comments", sql |-> tsql, out |-> strip_sql_comments(tsql)]>>
    /\ UNCHANGED <<tsql, snow, schema_map, opts, steps>>

MaxCommentFrags == 4
CommentFrags == {<<"a">>, <<"/", "*">>, <<"*", "/">>, <<"-", "-">>, <<NL>>}

InitComments ==
    /\ tsql \in Texts(CommentFrags, MaxCommentFrags)
    /\ snow = <<>>
    /\ schema_map = <<>>
    /\ opts = NoOpts
    /\ ret = <<>>
    /\ steps = <<>>

NextComments == StripComments
SpecComments == InitComments /\ [][NextComments]_vars

-----------------------------------------------------------------------------
(* t_sql_to_snowflake *)

Translate ==
    /\ ret = <<>>
    /\ steps' = translate_steps(tsql, schema_map)
    /\ ret' = <<[fn |-> "t_sql_to_snowflake", sql |-> tsql,
                 out |-> t_sql_to_snowflake(tsql, schema_map)]>>
    /\ UNCHANGED <<tsql, snow, schema_map, opts>>

\* every rule of the translator
MaxRuleFrags == 2
RuleFrags == {
    <<"-", "-", "c">>,
    <<"[", "a", "]">>,
    <<"I", "S", "N", "U", "L", "L", "(">>,
    <<"g", "e", "t", "d", "a", "t", "e", "(", ")">>,
    <<"L", "E", "N", " ", "(">>,
    <<"d", "a", "t", "e", "d", "i", "f", "f", "(">>,
    <<"w", "i", "t", "h", "(", "n", "o", "l", "o", "c", "k", ")">>,
    <<"c", "o", "n", "v", "e", "r", "t", "(", "a", ",", "b", ")">>,
    <<"S", "E", "L", "E", "C", "T", " ", "T", "O", "P", " ", "5", " ">>,
    <<"d", ".">>,
    <<";">>,
    <<NL>> }
\* SELECT TOP 5 ISNULL([a], GETDATE()), len(b), datediff (d, e, f), CONVERT(int, g)
\* FROM dbo.t WITH (NOLOCK); -- c
RuleExample ==
    <<"S","E","L","E","C","T"," ","T","O","P"," ","5"," ","I","S","N","U","L","L","(",
      "[","a","]",","," ","G","E","T","D","A","T","E","(",")",")",","," ","l","e","n","(",
      "b",")",","," ","d","a","t","e","d","i","f","f"," ","(","d",","," ","e",","," ","f",
      ")",","," ","C","O","N","V","E","R","T","(","i","n","t",","," ","g",")",NL,
      "F","R","O","M"," ","d","b","o",".","t"," ","W","I","T","H"," ","(","N","O","L","O",
      "C","K",")",";"," ","-","-"," ","c">>
RuleMaps == {<<>>, << <<<<"d", ".">>, <<"P", ".">>>> >>,
             << <<<<"d", "b", "o", ".">>, <<"P", "U", "B", "L", "I", "C", ".">>>> >>}

InitRules ==
    /\ tsql \in Texts(RuleFrags, MaxRuleFrags) \cup {RuleExample}
    /\ snow = <<>>
    /\ schema_map \in RuleMaps
    /\ opts = NoOpts
    /\ ret = <<>>
    /\ steps = <<>>

NextRules == Translate
SpecRules == InitRules /\ [][NextRules]_vars

\* the TOP rule
MaxTopFrags == 3
TopFrags == {
    <<"S", "E", "L", "E", "C", "T", " ", "T", "O", "P", " ", "5", " ">>,
    <<"s", "e", "l", "e", "c", "t", " ", " ", "t", "o", "p", " ", "7", NL>>,
    <<"T", "O", "P", " ", "5", " ">>,
    <<"L", "I", "M", "I", "T", " ", "3">>,
    <<"x">>,
    <<";">>,
    <<NL>>,
    <<"-", "-">> }
TopMaps == {<<>>, << <<<<"l", "i", "m", "i", "t">>, <<"l", "i", "m">>>> >>}

InitTop ==
    /\ tsql \in Texts(TopFrags, MaxTopFrags)
    /\ snow = <<>>
    /\ schema_map \in TopMaps
    /\ opts = NoOpts
    /\ ret = <<>>
    /\ steps = <<>>

NextTop == Translate
SpecTop == InitTop /\ [][NextTop]_vars

\* SELECT TOP in texts of one or several statements, without comments
LimitFrags == {
    <<"S", "E", "L", "E", "C", "T", " ", "T", "O", "P", " ", "5", " ">>,
    <<"s", "e", "l", "e", "c", "t", " ", " ", "t", "o", "p", " ", "7", NL>>,
    <<"a", " ">>,
    <<";">>,
    <<NL>> }

InitLimit ==
    /\ tsql \in Texts(LimitFrags, MaxTopFrags)
    /\ snow = <<>>
    /\ schema_map = <<>>
    /\ opts = NoOpts
    /\ ret = <<>>
    /\ steps = <<>>

NextLimit == Translate
SpecLimit == InitLimit /\ [][NextLimit]_vars

\* CONVERT calls written on one line or on several, plain and one inside the other
MaxConvertFrags == 3
ConvertFrags == {
    <<"C", "O", "N", "V", "E", "R", "T", "(", "i", "n", "t", ",", " ">>,
    <<"c", "o", "n", "v", "e", "r", "t", " ", "(", "X", "_", "1", " ", ",">>,
    <<"a", NL>>,
    <<" ", "b", " ">>,
    <<")">>,
    <<NL>> }

InitConvert ==
    /\ tsql \in Texts(ConvertFrags, MaxConvertFrags)
    /\ snow = <<>>
    /\ schema_map = <<>>
    /\ opts = NoOpts
    /\ ret = <<>>
    /\ steps = <<>>

NextConvert == Translate
SpecConvert == InitConvert /\ [][NextConvert]_vars

\* statement terminators, one or several in a row, with and without whitespace
\* between them
MaxTerminatorFrags == 4
TerminatorFrags == {<<"a">>, <<";">>, <<" ">>, <<NL>>}
TerminatorMaps == {<<>>, << <<<<"a">>, <<";">>>> >>}

InitTerminators ==
    /\ tsql \in Texts(TerminatorFrags, MaxTerminatorFrags)
    /\ snow = <<>>
    /\ schema_map \in TerminatorMaps
    /\ opts = NoOpts
    /\ ret = <<>>
    /\ steps = <<>>

NextTerminators == Translate
SpecTerminators == InitTerminators /\ [][NextTerminators]_vars

-----------------------------------------------------------------------------
(* apply_schema_mapping, on the mapping tables the sidebar can hold *)

MaxMapFrags == 3
MaxMapEntries == 2
MapFrags == {<<"a">>, <<"B">>, <<".">>, <<"(">>}
MapEntries == {
    <<<<"a", ".">>, <<"x">>>>,
    <<<<".">>, <<"a", ".">>>>,
    <<<<"b">>, <<"B", ".">>>>,
    <<<<"(">>, <<"b">>>>,
    <<<<"(">>, <<BSL, ".">>>>,
    <<<<"b">>, <<BSL, "n">>>>,
    <<<<"a">>, <<BSL, BSL>>>>,
    <<<<".">>, <<BSL, "1">>>> }
\* a dict: no key twice, in the order of the lines of the text area
MapTables == {m \in Seqs(MapEntries, MaxMapEntries) :
                 \A i, j \in DOMAIN m : i # j => m[i][1] # m[j][1]}

InitMapping ==
    /\ tsql \in Texts(MapFrags, MaxMapFrags)
    /\ snow = <<>>
    /\ schema_map \in MapTables
    /\ opts = NoOpts
    /\ ret = <<>>
    /\ steps = <<>>

ApplyMapping ==
    /\ ret = <<>>
    /\ ret' = <<[fn |-> "apply_schema_mapping", sql |-> tsql,
                 out |-> apply_schema_mapping(tsql, schema_map)]>>
    /\ UNCHANGED <<tsql, snow, schema_map, opts, steps>>

NextMapping == ApplyMapping
SpecMapping == InitMapping /\ [][NextMapping]_vars

-----------------------------------------------------------------------------
(* The Compare tab.  The page is run again whenever an input changes; a run *)
(* on the same inputs computes the same again, so one run per pair of texts *)
(* is kept.                                                                 *)

Ran(a, b) == \E k \in DOMAIN ret : ret[k].fn = "compare_tab" /\ ret[k].sql = <<a, b>>

Compare ==
    /\ tsql # <<>> /\ snow # <<>>
    /\ ~Ran(tsql, snow)
    /\ ret' = Append(ret, [fn |-> "compare_tab", sql |-> <<tsql, snow>>,
                           out |-> compare_tab(tsql, snow, opts, schema_map)])
    /\ UNCHANGED <<tsql, snow, schema_map, opts, steps>>

\* the user puts each text into the other pane
Swap ==
    /\ tsql # snow
    /\ tsql' = snow
    /\ snow' = tsql
    /\ UNCHANGED <<schema_map, opts, ret, steps>>

\* the congruence score, on short texts
MaxRatioFrags == 3
RatioFrags == {<<"a">>, <<"b">>, <<NL>>}

InitRatio ==
    /\ tsql \in Texts(RatioFrags, MaxRatioFrags)
    /\ snow \in Texts(RatioFrags, MaxRatioFrags)
    /\ schema_map = SidebarMapping
    /\ opts \in {NoOpts, SidebarOpts}
    /\ ret = <<>>
    /\ steps = <<>>

NextRatio == Compare \/ Swap
SpecRatio == InitRatio /\ [][NextRatio]_vars

\* the heatmap, on texts of several lines
MaxDiffFrags == 3
DiffFrags == {<<"a", NL>>, <<"b", NL>>, <<"c", NL>>}

InitDiff ==
    /\ tsql \in Texts(DiffFrags, MaxDiffFrags)
    /\ snow \in Texts(DiffFrags, MaxDiffFrags)
    /\ schema_map = SidebarMapping
    /\ opts \in {NoOpts, SidebarOpts}
    /\ ret = <<>>
    /\ steps = <<>>

NextDiff == Compare
SpecDiff == InitDiff /\ [][NextDiff]_vars

\* the two panes hold the same text up to letter case and to the length and kind
\* of its whitespace runs: each fragment of one is a variant of the other's
MaxCanonFrags == 2
CanonFrags == {
    {<<"a">>, <<"A">>},
    {<<" ">>, <<NL, TAB>>},
    {<<"-", "-", "b", " ">>, <<"-", "-", "B", NL>>},
    {<<"[", "b", "]">>} }
VariantPairs == UNION {c \X c : c \in CanonFrags}
RECURSIVE CanonPairs(_)
CanonPairs(n) ==
    IF n = 0 THEN {<< <<>>, <<>> >>}
    ELSE LET P == CanonPairs(n - 1) IN
         P \cup {<<p[1] \o v[1], p[2] \o v[2]>> : p \in P, v \in VariantPairs}
\* no mapping, a mapping of a name, and a mapping whose source has a space in it
CanonMaps == {
    <<>>,
    << <<<<"b">>, <<"C", " ">>>> >>,
    << <<<<"b", " ", "a">>, <<"c">>>> >> }

InitCanon ==
    /\ \E p \in CanonPairs(MaxCanonFrags) : tsql = p[1] /\ snow = p[2]
    /\ schema_map \in CanonMaps
    /\ opts \in {o \in AllOpts : o.casefold /\ o.collapse_ws}
    /\ ret = <<>>
    /\ steps = <<>>

NextCanon == Compare
SpecCanon == InitCanon /\ [][NextCanon]_vars

\* documents of several lines, with whitespace of every kind at their ends and
\* inside, and a mapping that writes a newline
MaxCollapseFrags == 2
CollapseFrags == {<<"a">>, <<" ", TAB>>, <<NL, "a">>, <<FF, CR>>}
CollapseMaps == {<<>>, << <<<<"a">>, <<"b", BSL, "n", "b">>>> >>}

InitCollapse ==
    /\ tsql \in Texts(CollapseFrags, MaxCollapseFrags)
    /\ snow \in Texts(CollapseFrags, MaxCollapseFrags)
    /\ schema_map \in CollapseMaps
    /\ opts \in {[NoOpts EXCEPT !.collapse_ws = TRUE], SidebarOpts}
    /\ ret = <<>>
    /\ steps = <<>>

NextCollapse == Compare
SpecCollapse == InitCollapse /\ [][NextCollapse]_vars

-----------------------------------------------------------------------------
(* inline_diff_html, on pairs of lines with words, spaces and characters    *)
(* that html.escape rewrites                                                *)

InlineDiff ==
    /\ ret = <<>>
    /\ ret' = <<[fn |-> "inline_diff_html", sql |-> <<tsql, snow>>,
                 out |-> inline_diff_html(tsql, snow)]>>
    /\ UNCHANGED <<tsql, snow, schema_map, opts, steps>>

\* the longer line has at most MaxInlineFrags fragments, the other MaxInlineShort
MaxInlineFrags == 3
MaxInlineShort == 2
InlineFrags == {<<"a">>, <<"b">>, <<" ">>, <<"<", "&", "'">>}

InitInline ==
    /\ \/ tsql \in Texts(InlineFrags, MaxInlineFrags) /\ snow \in Texts(InlineFrags, MaxInlineShort)
       \/ tsql \in Texts(InlineFrags, MaxInlineShort) /\ snow \in Texts(InlineFrags, MaxInlineFrags)
    /\ schema_map = <<>>
    /\ opts = NoOpts
    /\ ret = <<>>
    /\ steps = <<>>

NextInline == InlineDiff
SpecInline == InitInline /\ [][NextInline]_vars

-----------------------------------------------------------------------------
(* explain_differences *)

Explain ==
    /\ ret = <<>>
    /\ ret' = <<[fn |-> "explain_differences", sql |-> <<tsql, snow>>,
                 out |-> explain_differences(tsql, snow)]>>
    /\ UNCHANGED <<tsql, snow, schema_map, opts, steps>>

\* the constructs of the checks table, one fragment for each; the Snowflake
\* text is empty or one of them
MaxExplainFrags == 2
ExplainFrags == {
    <<"I", "s", "N", "u", "l", "l", " ", "(">>,
    <<"G", "E", "T", "D", "A", "T", "E", "(", " ", ")">>,
    <<"l", "e", "n", "(">>,
    <<"n", "v", "a", "r", "c", "h", "a", "r", " ">>,
    <<"W", "I", "T", "H", "(", "N", "O", "L", "O", "C", "K", ")">>,
    <<"I", "D", "E", "N", "T", "I", "T", "Y", "(">>,
    <<"T", "O", "P", " ", "5">>,
    <<"M", "E", "R", "G", "E", ";">>,
    <<"c", "r", "o", "s", "s", " ", "a", "p", "p", "l", "y", ";">>,
    <<"x", "_", "1", " ">> }

InitExplain ==
    /\ tsql \in Texts(ExplainFrags, MaxExplainFrags)
    /\ snow \in {<<>>} \cup ExplainFrags
    /\ schema_map = <<>>
    /\ opts = NoOpts
    /\ ret = <<>>
    /\ steps = <<>>

NextExplain == Explain
SpecExplain == InitExplain /\ [][NextExplain]_vars

\* the vocabulary: a text is a run of consecutive words of the list
MaxTsqlWords == 12
MaxSnowWords == 2
Words == <<
    <<"i", "d">>, <<"t", "o", "p">>, <<"N", "a", "m", "e">>, <<"r", "o", "w", "s">>,
    <<"c", "o", "s", "t">>, <<"d", "a", "t", "e">>, <<"i", "t", "e", "m">>,
    <<"k", "i", "n", "d">>, <<"l", "i", "n", "e">>, <<"m", "o", "d", "e">>,
    <<"n", "o", "t", "e">>, <<"p", "a", "g", "e">>, <<"q", "t", "y", "_", "1">>,
    <<"_", "t", "m", "p">>, <<"2", "u", "n", "i", "t">>, <<"Z", "o", "n", "e", "s">> >>

RECURSIVE Join(_, _)
Join(ws, sep) ==
    IF ws = <<>> THEN <<>>
    ELSE IF Len(ws) = 1 THEN ws[1]
    ELSE ws[1] \o sep \o Join(Tail(ws), sep)

WordRuns(n) ==
    {Join(SubSeq(Words, i, j), <<" ">>) :
         <<i, j>> \in {p \in (1..Len(Words)) \X (0..Len(Words)) : p[2] - p[1] + 1 \in 0..n}}

InitVocab ==
    /\ tsql \in WordRuns(MaxTsqlWords)
    /\ snow \in WordRuns(MaxSnowWords)
    /\ schema_map = <<>>
    /\ opts = NoOpts
    /\ ret = <<>>
    /\ steps = <<>>

NextVocab == Explain
SpecVocab == InitVocab /\ [][NextVocab]_vars

-----------------------------------------------------------------------------
(* What the claims need to say *)

StartsAt(s, sub, i) == i + Len(sub) - 1 <= Len(s) /\ SubSeq(s, i, i + Len(sub) - 1) = sub
Contains(s, sub) == \E i \in 1..(Len(s) + 1) : StartsAt(s, sub, i)
EndsWith(s, sub) == Len(sub) <= Len(s) /\ StartsAt(s, sub, Len(s) - Len(sub) + 1)

\* the digit strings of a text
Numbers(s) ==
    {SubSeq(s, i, j) : i \in 1..Len(s), j \in 1..Len(s)}
        \cap {SubSeq(s, i, j) : <<i, j>> \in {p \in (1..Len(s)) \X (1..Len(s)) :
                  p[1] <= p[2] /\ \A k \in p[1]..p[2] : s[k] \in Digits}}

Translated == ret # <<>> /\ ret[1].fn = "t_sql_to_snowflake"
Out == ret[1].out

\* the positions of steps
BeforeConvert == 8
AfterConvert == 9
BeforeTop == 9
AfterTop == 10
AfterRules == 12

-----------------------------------------------------------------------------
(* C1 *)

\* C1 (as stated, refuted): normalizing the output of normalize_for_compare again,
\* with the same options and mapping, returns it unchanged.
C1_Idempotent ==
    \A k \in 1..(Len(ret) - 1) : ret[k + 1].out = ret[k].out

\* C1 (amended): with comment stripping and bracket dropping off and an empty
\* mapping table, for both settings of casefold and of whitespace collapsing,
\* normalizing the output of normalize_for_compare again returns it unchanged.
C1_IdempotentCaseAndSpace ==
    (~opts.strip_comments_opt /\ ~opts.drop_brackets /\ schema_map = <<>>)
        => \A k \in 1..(Len(ret) - 1) : ret[k + 1].out = ret[k].out

\* the first call lowered and collapsed the text and the second left it alone
C1_Witness ==
    /\ Len(ret) >= 2
    /\ ~opts.strip_comments_opt /\ ~opts.drop_brackets /\ schema_map = <<>>
    /\ opts.casefold /\ opts.collapse_ws
    /\ Len(ret[1].out) < Len(tsql) /\ ret[1].out # <<>>
    /\ ret[1].out # SubSeq(tsql, 1, Len(ret[1].out))
    /\ ret[2].out = ret[1].out

-----------------------------------------------------------------------------
(* C2 *)

\* C2 (as stated, refuted by the code): the translator never collapses whitespace;
\* in particular an input that no rewrite rule changes is returned unchanged.
C2_NoRuleNoChange ==
    Translated => (steps[AfterRules].s = tsql => Out.s = tsql)

-----------------------------------------------------------------------------
(* C3 *)

RuleOrder == <<CommentsNote.msg, BracketsNote.msg, IsnullNote.msg, GetdateNote.msg,
               LenNote.msg, DatediffNote.msg, NolockNote.msg, ConvertNote.msg,
               TopNote(<<>>).msg, MappingNote.msg>>
Rank(note) == CHOOSE r \in DOMAIN RuleOrder : RuleOrder[r] = note.msg

\* C3: the notes of t_sql_to_snowflake are in the declared rule order (comments,
\* brackets, ISNULL, GETDATE, LEN, DATEDIFF, NOLOCK, CONVERT, TOP, name mapping),
\* each rule's note at most once, and only the note of a rule that changed the text.
C3_NotesInRuleOrder ==
    Translated =>
        /\ \A i \in DOMAIN Out.notes : \E r \in DOMAIN RuleOrder : RuleOrder[r] = Out.notes[i].msg
        /\ \A i, j \in DOMAIN Out.notes : i < j => Rank(Out.notes[i]) < Rank(Out.notes[j])
        /\ \A i \in DOMAIN Out.notes :
               steps[Rank(Out.notes[i]) + 1].s # steps[Rank(Out.notes[i])].s

\* all ten rules fired on one input
C3_Witness ==
    Translated /\ Len(Out.notes) = Len(RuleOrder)

-----------------------------------------------------------------------------
(* C4 *)

\* SELECT TOP n followed by whitespace, as the rule looks for it
SelectTopN(n) ==
    <<WB>> \o LitCI(<<"S","E","L","E","C","T">>) \o <<Plus(Space)>> \o LitCI(<<"T","O","P">>)
        \o <<Plus(Space)>> \o Lit(n) \o <<Plus(Space)>>
TOP(n) == <<"T","O","P"," ">> \o n
LIMIT(n) == <<"L","I","M","I","T"," ">> \o n

\* C4 (as stated, refuted by the code): an input that contains SELECT TOP N
\* followed by whitespace and no LIMIT clause is translated to a text that contains
\* "LIMIT N" and no "TOP N", and the notes have exactly one note that mentions
\* TOP N and LIMIT N.
C4_TopBecomesLimit ==
    Translated =>
        \A n \in Numbers(tsql) :
            (Found(SelectTopN(n), tsql) /\ ~Found(LimitClause, tsql))
                => /\ Contains(Out.s, LIMIT(n))
                   /\ ~Contains(Out.s, TOP(n))
                   /\ Cardinality({i \in DOMAIN Out.notes : Out.notes[i] = TopNote(n)}) = 1

-----------------------------------------------------------------------------
(* C5 *)

\* C5 (as stated, refuted by the code): when the source has both a SELECT TOP N and
\* a LIMIT clause, the TOP rule neither drops TOP N nor appends LIMIT N: it leaves
\* the text as it is.
C5_TopRuleSkipped ==
    Translated =>
        ((Found(SelectTop, tsql) /\ Found(LimitClause, tsql))
            => steps[AfterTop].s = steps[BeforeTop].s)

-----------------------------------------------------------------------------
(* C6 *)

\* every occurrence of src in s, whatever its case, from left to right and
\* without overlap, replaced by tgt as it is
RECURSIVE ReplaceLiteral(_, _, _)
ReplaceLiteral(s, src, tgt) ==
    IF Len(s) < Len(src) \/ src = <<>> THEN s
    ELSE IF Lower(SubSeq(s, 1, Len(src))) = Lower(src)
    THEN tgt \o ReplaceLiteral(SubSeq(s, Len(src) + 1, Len(s)), src, tgt)
    ELSE <<Head(s)>> \o ReplaceLiteral(Tail(s), src, tgt)

RECURSIVE MappingReference(_, _)
MappingReference(sql, mapping) ==
    IF mapping = <<>> THEN sql
    ELSE MappingReference(ReplaceLiteral(sql, mapping[1][1], mapping[1][2]), Tail(mapping))

\* C6 (as stated, refuted by the code): apply_schema_mapping returns what replacing,
\* entry after entry in declared order, every case-insensitive occurrence of the
\* source string in the text rewritten so far by the target string returns, with
\* every character of the source matching only itself and every character of the
\* target inserted as it is.
C6_LiteralMapping ==
    (ret # <<>> /\ ret[1].fn = "apply_schema_mapping")
        => ret[1].out = MappingReference(tsql, schema_map)

-----------------------------------------------------------------------------
(* C7 *)

\* C7 (as stated, refuted by the code): the ratio the sequence matcher computes for
\* (x, y) is the ratio it computes for (y, x).
C7_RatioSymmetric ==
    \A k, l \in DOMAIN ret :
        (/\ ret[k].fn = "compare_tab" /\ ret[l].fn = "compare_tab"
         /\ ret[k].out.norm_tsql = ret[l].out.norm_snow
         /\ ret[k].out.norm_snow = ret[l].out.norm_tsql)
            => SameRatio(ret[k].out.ratio, ret[l].out.ratio)

-----------------------------------------------------------------------------
(* C8 *)

\* the ranges lo..hi of a sequence of opcodes follow one another from 0 to n
Contiguous(ops, lo, hi, n) ==
    /\ \A k \in DOMAIN ops : ops[k][lo] <= ops[k][hi]
    /\ \A k \in DOMAIN ops : ops[k][lo] = (IF k = 1 THEN 0 ELSE ops[k - 1][hi])
    /\ (IF ops = <<>> THEN 0 ELSE ops[Len(ops)][hi]) = n

\* the rows whose cell on one side shows a line
RECURSIVE Shown(_, _)
Shown(rows, side) ==
    IF rows = <<>> THEN <<>>
    ELSE (IF side = "a" /\ Head(rows).i # -1 THEN <<<<Head(rows).i, Head(rows).a_line>>>>
          ELSE IF side = "b" /\ Head(rows).j # -1 THEN <<<<Head(rows).j, Head(rows).b_line>>>>
          ELSE <<>>)
         \o Shown(Tail(rows), side)

InOrder(shown, lines) ==
    /\ Len(shown) = Len(lines)
    /\ \A k \in DOMAIN shown : shown[k] = <<k - 1, lines[k]>>

\* C8: the opcodes of the line diff partition both line lists: their i-ranges
\* follow one another without gap or overlap from 0 to len(a_lines), their
\* j-ranges from 0 to len(b_lines); and the rows of side_by_side_html show every
\* line of A and every line of B once, in the order of the text.
C8_OpcodesPartition ==
    \A k \in DOMAIN ret :
        ret[k].fn = "compare_tab" =>
            LET t == ret[k].out.table IN
            /\ Contiguous(t.opcodes, 2, 3, Len(t.a_lines))
            /\ Contiguous(t.opcodes, 4, 5, Len(t.b_lines))
            /\ \A o \in DOMAIN t.opcodes : t.opcodes[o][2] < t.opcodes[o][3]
                                           \/ t.opcodes[o][4] < t.opcodes[o][5]
            /\ InOrder(Shown(t.rows, "a"), t.a_lines)
            /\ InOrder(Shown(t.rows, "b"), t.b_lines)

\* a diff with an equal and a replace opcode, and a row with a line on one side only
C8_Witness ==
    \E k \in DOMAIN ret :
        /\ ret[k].fn = "compare_tab"
        /\ LET t == ret[k].out.table IN
           /\ \E o \in DOMAIN t.opcodes : t.opcodes[o][1] = "equal"
           /\ \E o \in DOMAIN t.opcodes : t.opcodes[o][1] = "replace"
           /\ \E r \in DOMAIN t.rows : t.rows[r].i = -1 /\ t.rows[r].j # -1
           /\ Len(t.a_lines) >= 2

-----------------------------------------------------------------------------
(* C9 *)

Explained == ret # <<>> /\ ret[1].fn = "explain_differences"
Msgs == {ret[1].out[k].msg : k \in DOMAIN ret[1].out}

\* the place of a message: its row in the checks table, and after the table the
\* two vocabulary messages
Place(e) ==
    IF e.msg = OnlyTsqlMsg THEN Len(checks) + 1
    ELSE IF e.msg = OnlySnowMsg THEN Len(checks) + 2
    ELSE CHOOSE k \in DOMAIN checks : checks[k][2] = e.msg

ConstructsReported ==
    /\ \A k \in DOMAIN checks :
           checks[k][2] \in Msgs <=> (Found(checks[k][1], tsql) /\ ~Found(checks[k][1], snow))
    /\ \A i, j \in DOMAIN ret[1].out : i < j => Place(ret[1].out[i]) < Place(ret[1].out[j])

\* C9 (as stated, refuted): for every pair of raw texts, an empty rawB included,
\* explain_differences emits the message of an entry of the checks table if and
\* only if the entry's pattern matches rawA and does not match rawB, and the
\* construct messages come in table order, before any vocabulary message.
C9_ConstructMessages ==
    Explained => ConstructsReported

\* C9 (amended): the same for every pair of non-empty raw texts; when rawA or rawB
\* is empty, explain_differences emits no message at all.
C9_ConstructMessagesOfNonEmpty ==
    Explained =>
        /\ (tsql # <<>> /\ snow # <<>>) => ConstructsReported
        /\ (tsql = <<>> \/ snow = <<>>) => ret[1].out = <<>>

\* two constructs in rawA, the second of the table first in the text; rawB has one
\* of them, and the other one is the only construct reported
C9_Witness ==
    /\ Explained
    /\ snow # <<>>
    /\ Found(checks[1][1], tsql) /\ Found(checks[3][1], tsql)
    /\ Found(checks[3][1], snow) /\ ~Found(checks[1][1], snow)
    /\ Msgs \cap {checks[k][2] : k \in DOMAIN checks} = {checks[1][2]}

-----------------------------------------------------------------------------
(* C10 *)

\* the case-folded word tokens of a text: its longest runs of letters, digits
\* and underscores that do not start with a digit
WordTokens(text) ==
    {Lower(SubSeq(text, i, j)) : <<i, j>> \in
        {p \in (1..Len(text)) \X (1..Len(text)) :
            /\ p[1] <= p[2]
            /\ \A k \in p[1]..p[2] : text[k] \in WordChars
            /\ text[p[1]] \notin Digits
            /\ (p[1] = 1 \/ text[p[1] - 1] \notin WordChars)
            /\ (p[2] = Len(text) \/ text[p[2] + 1] \notin WordChars)}}

LongTokensOnlyIn(x, y) == {t \in WordTokens(x) \ WordTokens(y) : Len(t) > 3}

\* q lists the first 10, or all if fewer, of the tokens of D in lexicographic order
FirstTen(q, D) ==
    /\ \A k \in DOMAIN q : q[k] \in D
    /\ \A k, l \in DOMAIN q : k < l => StrLess(q[k], q[l])
    /\ Len(q) = (IF Cardinality(D) < 10 THEN Cardinality(D) ELSE 10)
    /\ \A t \in D : (\A k \in DOMAIN q : q[k] # t) => \A k \in DOMAIN q : StrLess(q[k], t)

Vocabulary == {k \in DOMAIN ret[1].out : ret[1].out[k].msg \in {OnlyTsqlMsg, OnlySnowMsg}}

\* C10: explain_differences emits at most two vocabulary messages, one for each
\* direction, and none for an empty list; the message of a direction lists the
\* first 10 (or fewer) in lexicographic order of the case-folded word tokens longer
\* than 3 characters that are in that side's text and not in the other's.  For two
\* non-empty texts the message of a direction with such tokens is emitted.
C10_VocabularyMessages ==
    Explained =>
        /\ Cardinality(Vocabulary) <= 2
        /\ \A k, l \in Vocabulary : ret[1].out[k].msg = ret[1].out[l].msg => k = l
        /\ \A k \in Vocabulary :
               /\ ret[1].out[k].tokens # <<>>
               /\ ret[1].out[k].msg = OnlyTsqlMsg
                      => FirstTen(ret[1].out[k].tokens, LongTokensOnlyIn(tsql, snow))
               /\ ret[1].out[k].msg = OnlySnowMsg
                      => FirstTen(ret[1].out[k].tokens, LongTokensOnlyIn(snow, tsql))
        /\ (tsql # <<>> /\ snow # <<>>) =>
               /\ LongTokensOnlyIn(tsql, snow) # {} => OnlyTsqlMsg \in Msgs
               /\ LongTokensOnlyIn(snow, tsql) # {} => OnlySnowMsg \in Msgs

\* more than 10 tokens only in the T-SQL text, 10 of them listed, and a message
\* for the other direction too
C10_Witness ==
    /\ Explained
    /\ Cardinality(LongTokensOnlyIn(tsql, snow)) > VocabCap
    /\ \E k \in Vocabulary : ret[1].out[k].msg = OnlyTsqlMsg /\ Len(ret[1].out[k].tokens) = VocabCap
    /\ \E k \in Vocabulary : ret[1].out[k].msg = OnlySnowMsg
    /\ \E w \in WordTokens(tsql) \ WordTokens(snow) : Len(w) = MinTokenLen

-----------------------------------------------------------------------------
(* C11 *)

\* a call CONVERT(type, expr) as the claim describes it: CONVERT in any case, a
\* plain identifier for the type, and an expression without parentheses
PlainConvertCall ==
    <<WB>> \o LitCI(<<"C","O","N","V","E","R","T">>) \o <<Star(Space)>> \o Lit(<<"(">>)
        \o <<Star(Space), Open(1), Plus(WordChars), Close(1), Star(Space)>> \o Lit(<<",">>)
        \o <<Star(Space), Open(2), Star(Not({"(", ")"})), Close(2)>> \o Lit(<<")">>)
\* CAST(expr AS type)
CastOfCall ==
    <<RLit(<<"C","A","S","T","(">>), RStrip(2), RLit(<<" ","A","S"," ">>), RGrp(1), RLit(<<")">>)>>

\* C11 (as stated, refuted by the code): when the source text contains a call
\* CONVERT(type, expr) with a plain identifier for the type and no parenthesis in
\* expr, the CONVERT rule replaces every such call by CAST(expr AS type) and the
\* CONVERT-to-CAST note is among the notes returned.
C11_ConvertBecomesCast ==
    Translated =>
        (Found(PlainConvertCall, tsql)
            => /\ steps[AfterConvert].s = Sub(PlainConvertCall, CastOfCall, steps[BeforeConvert].s)
               /\ \E i \in DOMAIN Out.notes : Out.notes[i] = ConvertNote)

-----------------------------------------------------------------------------
(* C12 *)

\* x and y differ at most in the case of their letters and in the length and kind
\* of their whitespace runs: a whitespace run faces a whitespace run, every other
\* character faces the same character in either case
RECURSIVE SameButCaseAndSpace(_, _)
SameButCaseAndSpace(x, y) ==
    IF x = <<>> \/ y = <<>> THEN x = y
    ELSE IF Head(x) \in Space \/ Head(y) \in Space
         THEN /\ Head(x) \in Space /\ Head(y) \in Space
              /\ SameButCaseAndSpace(LStripSet(x, Space), LStripSet(y, Space))
         ELSE /\ ToLower(Head(x)) = ToLower(Head(y))
              /\ SameButCaseAndSpace(Tail(x), Tail(y))

ComparedRun == ret # <<>> /\ ret[1].fn = "compare_tab"
SameCanonicalForm ==
    /\ ret[1].out.norm_tsql = ret[1].out.norm_snow
    /\ SameRatio(ret[1].out.ratio, [num |-> 1, den |-> 1])
    /\ \A k \in DOMAIN ret[1].out.table.opcodes : ret[1].out.table.opcodes[k][1] = "equal"

\* every source of the mapping is non-empty and free of whitespace, and no target
\* has a backslash
PlainMapping(mapping) ==
    \A k \in DOMAIN mapping :
        /\ mapping[k][1] # <<>>
        /\ \A i \in DOMAIN mapping[k][1] : mapping[k][1][i] \notin Space
        /\ \A i \in DOMAIN mapping[k][2] : mapping[k][2][i] # BSL

\* C12 (as stated, refuted by the code): with casefold and collapse whitespace on,
\* whatever the other options and the mapping, two texts that differ only in letter
\* case and in the length or kind of their whitespace runs have the same canonical
\* form, the ratio 1.0 and only equal opcodes in the line diff.
C12_SameCanonicalForm ==
    (ComparedRun /\ opts.casefold /\ opts.collapse_ws /\ SameButCaseAndSpace(tsql, snow))
        => SameCanonicalForm

\* C12 (amended): the same, when comment stripping is off and the mapping is plain
\* (no source is empty or has whitespace in it, no target has a backslash).
C12_SameCanonicalFormNoComments ==
    (/\ ComparedRun /\ opts.casefold /\ opts.collapse_ws
     /\ ~opts.strip_comments_opt /\ PlainMapping(schema_map)
     /\ SameButCaseAndSpace(tsql, snow))
        => SameCanonicalForm

\* two texts that differ in case and in the kind of a whitespace run inside them
\* were compared under a mapping that rewrote both, and found the same
C12_Witness ==
    /\ ComparedRun /\ opts.casefold /\ opts.collapse_ws
    /\ ~opts.strip_comments_opt
    /\ schema_map # <<>> /\ PlainMapping(schema_map)
    /\ SameButCaseAndSpace(tsql, snow)
    /\ Lower(tsql) # Lower(snow)
    /\ \E i \in DOMAIN tsql : tsql[i] \in UpperSet
    /\ \A i \in DOMAIN snow : snow[i] \notin UpperSet
    /\ Contains(ret[1].out.norm_tsql, <<"c", " ", "a">>)
    /\ ret[1].out.norm_tsql # normalize_whitespace(Lower(tsql))
    /\ SameCanonicalForm

-----------------------------------------------------------------------------
(* C13 *)

\* s without its line comments: from each -- to the end of its line
RECURSIVE WithoutLineComments(_, _)
WithoutLineComments(s, in_comment) ==
    IF s = <<>> THEN <<>>
    ELSE IF in_comment
         THEN IF Head(s) = NL THEN <<NL>> \o WithoutLineComments(Tail(s), FALSE)
              ELSE WithoutLineComments(Tail(s), TRUE)
         ELSE IF StartsAt(s, <<"-", "-">>, 1) THEN WithoutLineComments(Tail(Tail(s)), TRUE)
              ELSE <<Head(s)>> \o WithoutLineComments(Tail(s), FALSE)

\* the places of s where a block comment opens that is never closed
Unterminated(s) ==
    {i \in 1..Len(s) :
        /\ StartsAt(s, <<"/", "*">>, i)
        /\ \A j \in (i + 2)..Len(s) : ~StartsAt(s, <<"*", "/">>, j)}

FirstOf(S) == CHOOSE x \in S : \A y \in S : x <= y

\* C13 (as stated, refuted by the code): when the text, its line comments removed,
\* has a /* that no */ follows, strip_sql_comments returns nothing from that /* on:
\* its result is the text before the first such /*, with the block comments of that
\* part removed.
C13_UnterminatedRemoved ==
    (ret # <<>> /\ ret[1].fn = "strip_sql_comments")
        => LET t == WithoutLineComments(tsql, FALSE) IN
           Unterminated(t) # {}
               => ret[1].out = Sub(BlockComment, <<>>, SubSeq(t, 1, FirstOf(Unterminated(t)) - 1))

-----------------------------------------------------------------------------
(* C14 *)

\* two ; of s with nothing or only whitespace between them
RepeatedTerminators(s) ==
    \E i, j \in DOMAIN s :
        /\ i < j /\ s[i] = ";" /\ s[j] = ";"
        /\ \A k \in (i + 1)..(j - 1) : s[k] \in Space

\* C14 (as stated, refuted by the code): the text t_sql_to_snowflake returns has no
\* two ; that are adjacent or separated only by whitespace.
C14_NoRepeatedTerminators == Translated => ~RepeatedTerminators(Out.s)

-----------------------------------------------------------------------------
(* C15 *)

InlineRun == ret # <<>> /\ ret[1].fn = "inline_diff_html"

HighlightTags == {SpanOpen(seg_repl), SpanOpen(seg_del), SpanOpen(seg_ins)}

\* the characters of s that are not part of a highlight tag, each with TRUE when
\* it stands between an opening tag and its closing tag
RECURSIVE Marked(_, _)
Marked(s, inside) ==
    IF s = <<>> THEN <<>>
    ELSE IF \E t \in HighlightTags : StartsAt(s, t, 1)
         THEN LET t == CHOOSE t \in HighlightTags : StartsAt(s, t, 1) IN
              Marked(SubSeq(s, Len(t) + 1, Len(s)), TRUE)
         ELSE IF StartsAt(s, SpanClose, 1)
              THEN Marked(SubSeq(s, Len(SpanClose) + 1, Len(s)), FALSE)
              ELSE << <<Head(s), inside>> >> \o Marked(Tail(s), inside)

Characters(marked) == [i \in DOMAIN marked |-> marked[i][1]]
WithoutTags(s) == Characters(Marked(s, FALSE))

\* the escaped text of the first n tokens
EscapedUpTo(toks, n) == html_escape(Concat(SubSeq(toks, 1, n)))

\* marked being the characters of the string returned for a side, the tokens
\* inside lo..hi of an equal opcode stand outside every span
EqualUntagged(marked, toks, ops, lo, hi) ==
    \A k \in DOMAIN ops :
        ops[k][1] = "equal"
            => \A p \in (Len(EscapedUpTo(toks, ops[k][lo])) + 1)..Len(EscapedUpTo(toks, ops[k][hi])) :
                   p \in DOMAIN marked /\ ~marked[p][2]

\* C15: for every pair of lines, the tokens of each line concatenate back to the
\* line; the two strings returned by inline_diff_html, their highlight tags
\* removed, are the HTML-escaped lines; and what an equal opcode covers stands
\* outside every span.
C15_InlineKeepsContent ==
    InlineRun =>
        /\ Concat(ret[1].out.a_toks) = ret[1].sql[1]
        /\ Concat(ret[1].out.b_toks) = ret[1].sql[2]
        /\ WithoutTags(ret[1].out.a) = html_escape(ret[1].sql[1])
        /\ WithoutTags(ret[1].out.b) = html_escape(ret[1].sql[2])
        /\ EqualUntagged(Marked(ret[1].out.a, FALSE), ret[1].out.a_toks, ret[1].out.opcodes, 2, 3)
        /\ EqualUntagged(Marked(ret[1].out.b, FALSE), ret[1].out.b_toks, ret[1].out.opcodes, 4, 5)

\* two lines that share a token and differ in another, with a character that
\* html.escape rewrites on each side of the difference, were compared: the first
\* string has a span and text outside it
C15_Witness ==
    /\ InlineRun
    /\ \E k \in DOMAIN ret[1].out.opcodes :
           ret[1].out.opcodes[k][1] = "equal" /\ ret[1].out.opcodes[k][3] - ret[1].out.opcodes[k][2] >= 2
    /\ \E k \in DOMAIN ret[1].out.opcodes : ret[1].out.opcodes[k][1] = "replace"
    /\ Contains(ret[1].out.a, SpanOpen(seg_repl) \o <<"&", "l", "t", ";">>)
    /\ \E p \in DOMAIN Marked(ret[1].out.a, FALSE) :
           Marked(ret[1].out.a, FALSE)[p] = <<"a", FALSE>>
    /\ C15_InlineKeepsContent

-----------------------------------------------------------------------------
(* C16 *)

\* s has no line break, no whitespace at either end and no two whitespace
\* characters side by side
Collapsed(s) ==
    /\ \A i \in DOMAIN s : s[i] \notin LineBreaks
    /\ s # <<>> => (s[1] \notin Space /\ s[Len(s)] \notin Space)
    /\ \A i \in 1..(Len(s) - 1) : ~(s[i] \in Space /\ s[i + 1] \in Space)

\* C16: when collapse whitespace is on, whatever the text, the other options and
\* the mapping, the output of normalize_for_compare has no newline, no leading or
\* trailing whitespace and no two consecutive whitespace characters; each of the
\* two normalized documents splits into at most one line, and the table of
\* side_by_side_html has at most one row.
C16_CollapsedOneLine ==
    (ComparedRun /\ opts.collapse_ws)
        => /\ Collapsed(ret[1].out.norm_tsql)
           /\ Collapsed(ret[1].out.norm_snow)
           /\ Len(ret[1].out.table.a_lines) <= 1
           /\ Len(ret[1].out.table.b_lines) <= 1
           /\ Len(ret[1].out.table.rows) <= 1

\* two documents of several lines, one of them with a newline written by the
\* mapping and whitespace at its end, were compared in one row of two different
\* lines
C16_Witness ==
    /\ ComparedRun /\ opts.collapse_ws
    /\ \E i \in 2..(Len(tsql) - 1) : tsql[i] = NL /\ tsql[i - 1] = "a" /\ tsql[i + 1] = "a"
    /\ snow[Len(snow)] \in Space
    /\ Contains(ret[1].out.norm_tsql, <<"b", " ", "b", " ", "b", " ", "b">>)
    /\ Len(ret[1].out.table.rows) = 1
    /\ ret[1].out.table.rows[1].cls = "bad"
    /\ C16_CollapsedOneLine

====
